---------------------------- MODULE Spec2Model ----------------------------
(***************************************************************************)
(* Player statistics and league ranks (backend/app/helpers/players.py)     *)
(* over the six tables of backend/app/dbmodels/models.py, and the fixture  *)
(* loader (backend/scripts/load_data.py).                                  *)
(*                                                                         *)
(* A table is the set of its rows; a row is a record whose fields are the  *)
(* model's columns.  FloatField coordinates are drawn from small integers. *)
(* A str argument is the sequence of its characters.                       *)
(***************************************************************************)
EXTENDS Integers, Sequences, FiniteSets, TLC

VARIABLES
    teams,       \* rows of table 'teams'
    games,       \* rows of table 'games'
    players,     \* rows of table 'players'
    shots,       \* rows of table 'shots'
    passes,      \* rows of table 'passes'
    turnovers,   \* rows of table 'turnovers'
    call,        \* the last call made: [op, arg]
    result,      \* what the last call returned (or raised)
    first,       \* history: the first get_player_summary_stats call and its result
    fixture,     \* the JSON files of raw_data/ the loader reads
    pc,          \* where the loader's main() stands
    runs,        \* history: completed or aborted runs of main()
    afterFirst   \* history: the six tables as the first run of main() left them

store == <<teams, games, players, shots, passes, turnovers>>
vars == <<teams, games, players, shots, passes, turnovers,
          call, result, first, fixture, pc, runs, afterFirst>>

---------------------------------------------------------------------------
(* Bounds of the explored inputs. *)

MaxPlayers == 2
MaxEvents == 3
MaxSubjectEvents == 2
MaxObservedPlayers == 1
MaxObservedEvents == 2
MaxRecords == 4
MaxRuns == 2

---------------------------------------------------------------------------
(* Small generic helpers. *)

RECURSIVE SumSeq(_)
SumSeq(s) == IF s = <<>> THEN 0 ELSE Head(s) + SumSeq(Tail(s))

Range(s) == {s[i] : i \in DOMAIN s}

\* Every order in which a query without ORDER BY may return the rows of S.
RECURSIVE Orderings(_)
Orderings(S) ==
    IF S = {} THEN {<<>>}
    ELSE UNION {{<<x>> \o s : s \in Orderings(S \ {x})} : x \in S}

\* The rows of sequence s, as a bag: row -> number of occurrences.
BagOf(s) == [r \in Range(s) |-> Cardinality({i \in DOMAIN s : s[i] = r})]

---------------------------------------------------------------------------
(* The action categories get_player_summary_stats asks for. *)

Categories == <<"pickAndRoll", "isolation", "postUp", "offBallScreen">>
CategorySet == Range(Categories)

---------------------------------------------------------------------------
(* Python's int() and str() on the player_id argument. *)

Digits == <<"0", "1", "2", "3", "4", "5", "6", "7", "8", "9">>

DigitValue(c) == (CHOOSE i \in DOMAIN Digits : Digits[i] = c) - 1

IsDigit(c) == \E i \in DOMAIN Digits : Digits[i] = c

RECURSIVE DecimalValue(_)
DecimalValue(cs) ==
    IF cs = <<>> THEN 0
    ELSE 10 * DecimalValue(SubSeq(cs, 1, Len(cs) - 1)) + DigitValue(cs[Len(cs)])

RECURSIVE DecimalDigits(_)
DecimalDigits(n) ==
    IF n < 10 THEN <<Digits[n + 1]>>
    ELSE Append(DecimalDigits(n \div 10), Digits[(n % 10) + 1])

IntArg(n) == [type |-> "int", val |-> n]
StrArg(cs) == [type |-> "str", chars |-> cs]

\* int(player_id): the value, or ValueError for a str that is no integer literal.
PyInt(arg) ==
    IF arg.type = "int" THEN [ok |-> TRUE, val |-> arg.val]
    ELSE LET cs == arg.chars
             signed == cs # <<>> /\ cs[1] \in {"-", "+"}
             body == IF signed THEN Tail(cs) ELSE cs
         IN  IF body # <<>> /\ \A i \in DOMAIN body : IsDigit(body[i])
             THEN [ok |-> TRUE,
                   val |-> IF signed /\ cs[1] = "-" THEN 0 - DecimalValue(body)
                           ELSE DecimalValue(body)]
             ELSE [ok |-> FALSE, val |-> 0]

\* f"{player_id}": the text of the argument as it was passed.
PyFormat(arg) ==
    IF arg.type = "str" THEN arg.chars
    ELSE IF arg.val < 0 THEN <<"-">> \o DecimalDigits(0 - arg.val)
    ELSE DecimalDigits(arg.val)

---------------------------------------------------------------------------
(* get_player_summary_stats (helpers/players.py).                          *)
(* shots_o, passes_o, turnovers_o: the player's rows of each table in the  *)
(* order the database returns them.                                        *)

\* Mutant of FilterAction: rows of an unknown action type fall into isolation.
FilterAction_default_bucket(rows, action_type) ==
    {r \in rows : \/ r.action_type = action_type
                  \/ action_type = "isolation" /\ r.action_type \notin CategorySet}

\* QuerySet.filter(action_type=...).
FilterAction(rows, action_type) == {r \in rows : r.action_type = action_type}

\* Mutant of IterAction: the category filter is lost, every row is iterated.
IterAction_unfiltered(rows_o, action_type) == rows_o

\* Iterating QuerySet.filter(action_type=...): the rows in database order.
IterAction(rows_o, action_type) ==
    LET Match(r) == r.action_type = action_type IN SelectSeq(rows_o, Match)

shots_data(action_shots) ==
    [i \in DOMAIN action_shots |->
        [loc |-> <<action_shots[i].shot_loc_x, action_shots[i].shot_loc_y>>,
         points |-> action_shots[i].points]]

\* Mutant of passes_data: the passes flagged turnover are left out of the list.
passes_data_without_turnovers(action_passes) ==
    LET Kept(p) == ~p.turnover
        kept == SelectSeq(action_passes, Kept)
    IN  [i \in DOMAIN kept |->
            [startLoc |-> <<kept[i].ball_start_loc_x, kept[i].ball_start_loc_y>>,
             endLoc |-> <<kept[i].ball_end_loc_x, kept[i].ball_end_loc_y>>,
             isCompleted |-> kept[i].completed_pass,
             isPotentialAssist |-> kept[i].potential_assist,
             isTurnover |-> kept[i].turnover]]

passes_data(action_passes) ==
    [i \in DOMAIN action_passes |->
        [startLoc |-> <<action_passes[i].ball_start_loc_x, action_passes[i].ball_start_loc_y>>,
         endLoc |-> <<action_passes[i].ball_end_loc_x, action_passes[i].ball_end_loc_y>>,
         isCompleted |-> action_passes[i].completed_pass,
         isPotentialAssist |-> action_passes[i].potential_assist,
         isTurnover |-> action_passes[i].turnover]]

turnovers_data(action_turnovers) ==
    [i \in DOMAIN action_turnovers |->
        [loc |-> <<action_turnovers[i].tov_loc_x, action_turnovers[i].tov_loc_y>>]]

SumPoints(rows_o) == SumSeq([i \in DOMAIN rows_o |-> rows_o[i].points])

\* Mutant of CategoryTurnovers: the passes flagged turnover are left out.
CategoryTurnovers_standalone_only(action_passes, action_turnovers) ==
    Cardinality(action_turnovers)

CategoryTurnovers(action_passes, action_turnovers) ==
    Cardinality(action_turnovers) + Cardinality({p \in action_passes : p.turnover})

get_action_stats(action_type, shots_o, passes_o, turnovers_o) ==
    LET action_shots == FilterAction(Range(shots_o), action_type)
        action_passes == FilterAction(Range(passes_o), action_type)
        action_turnovers == FilterAction(Range(turnovers_o), action_type)
    IN  [totalShotAttempts |-> Cardinality(action_shots),
         totalPoints |-> SumPoints(IterAction(shots_o, action_type)),
         totalPasses |-> Cardinality(action_passes),
         totalPotentialAssists |-> Cardinality({p \in action_passes : p.potential_assist}),
         totalTurnovers |-> CategoryTurnovers(action_passes, action_turnovers),
         totalPassingTurnovers |-> Cardinality({p \in action_passes : p.turnover}),
         shots |-> shots_data(IterAction(shots_o, action_type)),
         passes |-> passes_data(IterAction(passes_o, action_type)),
         turnovers |-> turnovers_data(IterAction(turnovers_o, action_type))]

\* Mutant of ActionCount: a pass flagged turnover is counted as a turnover too.
ActionCount_passing_turnover_twice(action_type, shots_q, passes_q, turnovers_q) ==
    Cardinality({r \in shots_q : r.action_type = action_type})
    + Cardinality({r \in passes_q : r.action_type = action_type})
    + Cardinality({r \in turnovers_q : r.action_type = action_type})
    + Cardinality({r \in passes_q : r.action_type = action_type /\ r.turnover})

ActionCount(action_type, shots_q, passes_q, turnovers_q) ==
    Cardinality(FilterAction(shots_q, action_type))
    + Cardinality(FilterAction(passes_q, action_type))
    + Cardinality(FilterAction(turnovers_q, action_type))

OverallTurnovers(passes_q, turnovers_q) ==
    Cardinality(turnovers_q) + Cardinality({p \in passes_q : p.turnover})

PlayerSummary(player, shots_o, passes_o, turnovers_o) ==
    LET shots_q == Range(shots_o)
        passes_q == Range(passes_o)
        turnovers_q == Range(turnovers_o)
    IN  [name |-> player.name,
         playerID |-> player.player_id,
         totalShotAttempts |-> Cardinality(shots_q),
         totalPoints |-> SumPoints(shots_o),
         totalPasses |-> Cardinality(passes_q),
         totalPotentialAssists |-> Cardinality({p \in passes_q : p.potential_assist}),
         totalTurnovers |-> OverallTurnovers(passes_q, turnovers_q),
         totalPassingTurnovers |-> Cardinality({p \in passes_q : p.turnover}),
         pickAndRollCount |-> ActionCount("pickAndRoll", shots_q, passes_q, turnovers_q),
         isolationCount |-> ActionCount("isolation", shots_q, passes_q, turnovers_q),
         postUpCount |-> ActionCount("postUp", shots_q, passes_q, turnovers_q),
         offBallScreenCount |-> ActionCount("offBallScreen", shots_q, passes_q, turnovers_q),
         pickAndRoll |-> get_action_stats("pickAndRoll", shots_o, passes_o, turnovers_o),
         isolation |-> get_action_stats("isolation", shots_o, passes_o, turnovers_o),
         postUp |-> get_action_stats("postUp", shots_o, passes_o, turnovers_o),
         offBallScreen |-> get_action_stats("offBallScreen", shots_o, passes_o, turnovers_o)]

\* Model.objects.filter(player=player) on an event table.
OfPlayer(rows, player_id) == {r \in rows : r.player_id = player_id}

\* Player.objects.get(player_id=n): the matching rows (none: Player.DoesNotExist).
PlayerGet(player_rows, n) == {p \in player_rows : p.player_id = n}

NotFound(arg) == [error |-> <<"Player with ID ">> \o PyFormat(arg) \o <<" not found">>]
Raised(exc) == [raised |-> exc]

\* Every value get_player_summary_stats(arg) may return on the given tables.
SummaryResults(arg, player_rows, shot_rows, pass_rows, turnover_rows) ==
    LET n == PyInt(arg) IN
    IF ~n.ok THEN {Raised("ValueError")}
    ELSE LET found == PlayerGet(player_rows, n.val) IN
         IF found = {} THEN {NotFound(arg)}
         ELSE {PlayerSummary(player, shots_o, passes_o, turnovers_o) :
                  player \in found,
                  shots_o \in Orderings(OfPlayer(shot_rows, n.val)),
                  passes_o \in Orderings(OfPlayer(pass_rows, n.val)),
                  turnovers_o \in Orderings(OfPlayer(turnover_rows, n.val))}

IsSummary(r) == "playerID" \in DOMAIN r
IsError(r) == "error" \in DOMAIN r
IsRaised(r) == "raised" \in DOMAIN r
IsRanks(r) == "totalPointsRank" \in DOMAIN r
NoResult == [none |-> TRUE]


---------------------------------------------------------------------------
(* get_ranks (helpers/players.py).                                         *)

Null == [null |-> TRUE]

\* The related rows a LEFT OUTER JOIN pairs with a player: one NULL row if none.
OrNull(rows) == IF rows = {} THEN {Null} ELSE rows

Related(rel, player_id, shot_rows, pass_rows, turnover_rows) ==
    CASE rel = "shots" -> OfPlayer(shot_rows, player_id)
      [] rel = "passes" -> OfPlayer(pass_rows, player_id)
      [] rel = "turnovers" -> OfPlayer(turnover_rows, player_id)

\* The rows of one player's group in Player.objects.annotate(...) when the
\* annotation names the relations rels: players LEFT OUTER JOIN each of them.
JoinedRows(rels, player_id, shot_rows, pass_rows, turnover_rows) ==
    {j \in [rels -> shot_rows \cup pass_rows \cup turnover_rows \cup {Null}] :
        \A rel \in rels :
            j[rel] \in OrNull(Related(rel, player_id, shot_rows, pass_rows, turnover_rows))}

\* Count(rel): COUNT of the non-NULL related ids over the group's rows.
CountRel(joined, rel) == Cardinality({j \in joined : j[rel] # Null})

\* Count('passes', filter=Q(passes__turnover=True)).
CountPassTurnover(joined) ==
    Cardinality({j \in joined : j["passes"] # Null /\ j["passes"].turnover})

\* Count('passes', filter=Q(passes__potential_assist=True)).
CountPassAssist(joined) ==
    Cardinality({j \in joined : j["passes"] # Null /\ j["passes"].potential_assist})

\* tov_count = Count('turnovers') + Count('passes', filter=Q(passes__turnover=True)):
\* one query, so both relations are joined into the same group.
tov_count(player_id, shot_rows, pass_rows, turnover_rows) ==
    LET joined == JoinedRows({"turnovers", "passes"}, player_id,
                             shot_rows, pass_rows, turnover_rows)
    IN  CountRel(joined, "turnovers") + CountPassTurnover(joined)

RECURSIVE SumPointsOf(_)
SumPointsOf(rows) ==
    IF rows = {} THEN 0
    ELSE LET r == CHOOSE x \in rows : TRUE IN r.points + SumPointsOf(rows \ {r})

\* Shot.objects.filter(player=p).aggregate(Sum('points'))['points__sum'] or 0
points_sum_or_0(player_id, shot_rows) ==
    LET rows == OfPlayer(shot_rows, player_id) IN
    IF rows = {} THEN 0 ELSE SumPointsOf(rows)

\* The value calculate_rank compares against player_value, for one player.
Compared(stat_name, player_id, shot_rows, pass_rows, turnover_rows) ==
    CASE stat_name = "totalShotAttempts" ->
            CountRel(JoinedRows({"shots"}, player_id, shot_rows, pass_rows, turnover_rows),
                     "shots")
      [] stat_name = "totalPoints" -> points_sum_or_0(player_id, shot_rows)
      [] stat_name = "totalPasses" ->
            CountRel(JoinedRows({"passes"}, player_id, shot_rows, pass_rows, turnover_rows),
                     "passes")
      [] stat_name = "totalPotentialAssists" ->
            CountPassAssist(JoinedRows({"passes"}, player_id,
                                       shot_rows, pass_rows, turnover_rows))
      [] stat_name = "totalTurnovers" ->
            tov_count(player_id, shot_rows, pass_rows, turnover_rows)
      [] stat_name = "totalPassingTurnovers" ->
            CountPassTurnover(JoinedRows({"passes"}, player_id,
                                         shot_rows, pass_rows, turnover_rows))
      [] stat_name = "pickAndRollCount" ->
            ActionCount("pickAndRoll", OfPlayer(shot_rows, player_id),
                        OfPlayer(pass_rows, player_id), OfPlayer(turnover_rows, player_id))
      [] stat_name = "isolationCount" ->
            ActionCount("isolation", OfPlayer(shot_rows, player_id),
                        OfPlayer(pass_rows, player_id), OfPlayer(turnover_rows, player_id))
      [] stat_name = "postUpCount" ->
            ActionCount("postUp", OfPlayer(shot_rows, player_id),
                        OfPlayer(pass_rows, player_id), OfPlayer(turnover_rows, player_id))
      [] stat_name = "offBallScreenCount" ->
            ActionCount("offBallScreen", OfPlayer(shot_rows, player_id),
                        OfPlayer(pass_rows, player_id), OfPlayer(turnover_rows, player_id))

Metrics ==
    {"totalShotAttempts", "totalPoints", "totalPasses", "totalPotentialAssists",
     "totalTurnovers", "totalPassingTurnovers", "pickAndRollCount", "isolationCount",
     "postUpCount", "offBallScreenCount"}

calculate_rank(stat_name, player_value, player_rows, shot_rows, pass_rows, turnover_rows) ==
    IF stat_name \notin Metrics THEN 1
    ELSE LET better ==
                 {p \in player_rows :
                     Compared(stat_name, p.player_id, shot_rows, pass_rows, turnover_rows)
                         > player_value}
         IN  Cardinality(better) + 1

\* player_summary.get(key, 0)
DictGet(d, key) == IF key \in DOMAIN d THEN d[key] ELSE 0

get_ranks(player_summary, player_rows, shot_rows, pass_rows, turnover_rows) ==
    LET Rank(stat_name) ==
            calculate_rank(stat_name, DictGet(player_summary, stat_name),
                           player_rows, shot_rows, pass_rows, turnover_rows)
    IN  [totalShotAttemptsRank |-> Rank("totalShotAttempts"),
         totalPointsRank |-> Rank("totalPoints"),
         totalPassesRank |-> Rank("totalPasses"),
         totalPotentialAssistsRank |-> Rank("totalPotentialAssists"),
         totalTurnoversRank |-> Rank("totalTurnovers"),
         totalPassingTurnoversRank |-> Rank("totalPassingTurnovers"),
         pickAndRollCountRank |-> Rank("pickAndRollCount"),
         isolationCountRank |-> Rank("isolationCount"),
         postUpCountRank |-> Rank("postUpCount"),
         offBallScreenCountRank |-> Rank("offBallScreenCount")]

\* The key of RankSet that holds a metric's rank.
RankOf(ranks, metric) ==
    CASE metric = "totalShotAttempts" -> ranks.totalShotAttemptsRank
      [] metric = "totalPoints" -> ranks.totalPointsRank
      [] metric = "totalPasses" -> ranks.totalPassesRank
      [] metric = "totalPotentialAssists" -> ranks.totalPotentialAssistsRank
      [] metric = "totalTurnovers" -> ranks.totalTurnoversRank
      [] metric = "totalPassingTurnovers" -> ranks.totalPassingTurnoversRank
      [] metric = "pickAndRollCount" -> ranks.pickAndRollCountRank
      [] metric = "isolationCount" -> ranks.isolationCountRank
      [] metric = "postUpCount" -> ranks.postUpCountRank
      [] metric = "offBallScreenCount" -> ranks.offBallScreenCountRank

---------------------------------------------------------------------------
(* The stores the checks start from.  Every event row references an        *)
(* existing player and game (the foreign keys of models.py); ids are       *)
(* unique per table (primary_key=True).                                    *)

PlayerNames == <<"Ann", "Bo", "Cy", "Di", "Ed">>

TeamRow(team_id, name) == [team_id |-> team_id, name |-> name]
GameRow(id, date) == [id |-> id, date |-> date]
PlayerRow(player_id, name, team_id) ==
    [player_id |-> player_id, name |-> name, team_id |-> team_id]

ShotRow(id, player_id, game_id, action_type, points) ==
    [id |-> id, player_id |-> player_id, game_id |-> game_id, points |-> points,
     shooting_foul_drawn |-> FALSE, shot_loc_x |-> 5 + points, shot_loc_y |-> 1,
     action_type |-> action_type]

PassRow(id, player_id, game_id, action_type, potential_assist, turnover) ==
    [id |-> id, player_id |-> player_id, game_id |-> game_id,
     completed_pass |-> ~turnover, potential_assist |-> potential_assist,
     turnover |-> turnover,
     ball_start_loc_x |-> 0, ball_start_loc_y |-> 3,
     ball_end_loc_x |-> IF potential_assist THEN 4 ELSE 7, ball_end_loc_y |-> 2,
     action_type |-> action_type]

TurnoverRow(id, player_id, game_id, action_type) ==
    [id |-> id, player_id |-> player_id, game_id |-> game_id,
     tov_loc_x |-> 2, tov_loc_y |-> 6, action_type |-> action_type]

\* The kinds of event one player of the league family may have.
LeagueKinds ==
    {[table |-> "shots", action_type |-> a[1], points |-> a[2],
      potential_assist |-> FALSE, turnover |-> FALSE] :
        a \in {<<"pickAndRoll", 2>>, <<"pickAndRoll", 3>>, <<"transition", 2>>}}
    \cup
    {[table |-> "passes", action_type |-> a[1], points |-> 0,
      potential_assist |-> a[2], turnover |-> a[3]] :
        a \in {<<"pickAndRoll", TRUE, FALSE>>, <<"pickAndRoll", FALSE, TRUE>>,
               <<"postUp", FALSE, TRUE>>}}
    \cup
    {[table |-> "turnovers", action_type |-> a, points |-> 0,
      potential_assist |-> FALSE, turnover |-> FALSE] :
        a \in {"pickAndRoll", "isolation"}}

\* The kinds of event of the subject family: every action type the column
\* may hold, the four categories and one that is none of them.
StoredActions == CategorySet \cup {"transition"}

SubjectKinds ==
    {[table |-> "shots", action_type |-> a, points |-> pts,
      potential_assist |-> FALSE, turnover |-> FALSE] :
        a \in StoredActions, pts \in {0, 2}}
    \cup
    {[table |-> "passes", action_type |-> a, points |-> 0,
      potential_assist |-> f[1], turnover |-> f[2]] :
        a \in StoredActions, f \in {<<TRUE, FALSE>>, <<FALSE, TRUE>>, <<FALSE, FALSE>>}}
    \cup
    {[table |-> "turnovers", action_type |-> a, points |-> 0,
      potential_assist |-> FALSE, turnover |-> FALSE] :
        a \in StoredActions}

\* The kinds in a fixed order, to list every bag of events once.
RECURSIVE Enumerate(_)
Enumerate(S) ==
    IF S = {} THEN <<>>
    ELSE LET x == CHOOSE y \in S : TRUE IN <<x>> \o Enumerate(S \ {x})

LeagueKindSeq == Enumerate(LeagueKinds)
SubjectKindSeq == Enumerate(SubjectKinds)

\* The nondecreasing index sequences of length m over lo..hi.
RECURSIVE Nondecreasing(_, _, _)
Nondecreasing(m, lo, hi) ==
    IF m = 0 THEN {<<>>}
    ELSE UNION {{<<k>> \o s : s \in Nondecreasing(m - 1, k, hi)} : k \in lo..hi}

\* Event i of a list: kind ((i - 1) % K) + 1 of kinds, of player ((i - 1) \div K) + 1.
EventOf(kinds, k) ==
    [kind |-> kinds[((k - 1) % Len(kinds)) + 1], player_id |-> ((k - 1) \div Len(kinds)) + 1]

\* The event lists of at most max events among n players, one per bag.
EventLists(kinds, n, max) ==
    UNION {{[i \in DOMAIN s |-> EventOf(kinds, s[i])] :
               s \in Nondecreasing(m, 1, n * Len(kinds))} : m \in 0..max}

ShotsOf(events) ==
    {ShotRow(i, events[i].player_id, 1, events[i].kind.action_type, events[i].kind.points) :
        i \in {j \in DOMAIN events : events[j].kind.table = "shots"}}

PassesOf(events) ==
    {PassRow(i, events[i].player_id, 1, events[i].kind.action_type,
             events[i].kind.potential_assist, events[i].kind.turnover) :
        i \in {j \in DOMAIN events : events[j].kind.table = "passes"}}

TurnoversOf(events) ==
    {TurnoverRow(i, events[i].player_id, 1, events[i].kind.action_type) :
        i \in {j \in DOMAIN events : events[j].kind.table = "turnovers"}}

NoCall == [op |-> "none", arg |-> IntArg(0), result |-> NoResult, between |-> FALSE]
NoFixture == [teams |-> <<>>, games |-> <<>>, players |-> <<>>]
NoSnapshot == <<>>

\* A store of n players with the given events, no call made, the loader idle.
StoreInit(n, events) ==
    /\ teams = {TeamRow(1, "OKC")}
    /\ games = {GameRow(1, "2024-01-01")}
    /\ players = {PlayerRow(p, PlayerNames[p], 1) : p \in 1..n}
    /\ shots = ShotsOf(events)
    /\ passes = PassesOf(events)
    /\ turnovers = TurnoversOf(events)
    /\ call = [op |-> "none", arg |-> IntArg(0)]
    /\ result = NoResult
    /\ first = NoCall
    /\ fixture = NoFixture
    /\ pc = "idle"
    /\ runs = 0
    /\ afterFirst = NoSnapshot

LeagueInit ==
    \E n \in 0..MaxPlayers : \E events \in EventLists(LeagueKindSeq, n, MaxEvents) :
        StoreInit(n, events)

SubjectInit ==
    \E events \in EventLists(SubjectKindSeq, 1, MaxSubjectEvents) : StoreInit(1, events)

ObservedInit ==
    \E n \in 0..MaxObservedPlayers :
        \E events \in EventLists(LeagueKindSeq, n, MaxObservedEvents) :
            StoreInit(n, events)

---------------------------------------------------------------------------
(* The calls. *)

\* The player_id arguments tried: ids in and out of the store, as int and as str.
Args ==
    {IntArg(n) : n \in 1..(MaxPlayers + 1)}
    \cup {StrArg(<<"0", "1">>), StrArg(<<"1", "x">>)}

\* Mutant of GetPlayerSummaryStats: Player.objects.get_or_create in place of
\* get, so an unknown id inserts a player.
GetPlayerSummaryStats_get_or_create(arg) ==
    /\ pc = "idle"
    /\ players' = IF PyInt(arg).ok /\ PlayerGet(players, PyInt(arg).val) = {}
                  THEN players \cup {PlayerRow(PyInt(arg).val, "", 1)}
                  ELSE players
    /\ result' \in SummaryResults(arg, players', shots, passes, turnovers)
    /\ call' = [op |-> "get_player_summary_stats", arg |-> arg]
    /\ UNCHANGED <<teams, games, shots, passes, turnovers>>
    /\ UNCHANGED <<fixture, pc, runs, afterFirst>>

\* Mutant of GetPlayerSummaryStats: the last summary is kept in a module-level
\* cache and returned again whatever the id asked for.
GetPlayerSummaryStats_stale_cache(arg) ==
    /\ pc = "idle"
    /\ IF IsSummary(result)
       THEN result' = result
       ELSE result' \in SummaryResults(arg, players, shots, passes, turnovers)
    /\ call' = [op |-> "get_player_summary_stats", arg |-> arg]
    /\ UNCHANGED <<teams, games, players, shots, passes, turnovers>>
    /\ UNCHANGED <<fixture, pc, runs, afterFirst>>

GetPlayerSummaryStats(arg) ==
    /\ pc = "idle"
    /\ result' \in SummaryResults(arg, players, shots, passes, turnovers)
    /\ call' = [op |-> "get_player_summary_stats", arg |-> arg]
    /\ UNCHANGED <<teams, games, players, shots, passes, turnovers>>
    /\ UNCHANGED <<fixture, pc, runs, afterFirst>>

\* The caller passes get_ranks the summary it has just obtained, with the same
\* player_id; get_ranks itself never reads its player_id parameter.
GetRanks ==
    /\ pc = "idle"
    /\ call.op = "get_player_summary_stats"
    /\ IsSummary(result)
    /\ result' = get_ranks(result, players, shots, passes, turnovers)
    /\ call' = [op |-> "get_ranks", arg |-> call.arg]
    /\ UNCHANGED <<teams, games, players, shots, passes, turnovers>>
    /\ UNCHANGED <<fixture, pc, runs, afterFirst>>

Next ==
    \/ \E arg \in Args : GetPlayerSummaryStats(arg) /\ UNCHANGED first
    \/ GetRanks /\ UNCHANGED first

Spec == LeagueInit /\ [][Next]_vars

SummarySpec == SubjectInit /\ [][Next]_vars

\* The same calls, observed: the first get_player_summary_stats call is kept
\* with its result, and whether any other call was made after it.
Observed(arg) ==
    first' = IF first.op = "none"
             THEN [op |-> "get_player_summary_stats", arg |-> arg,
                   result |-> result', between |-> FALSE]
             ELSE [first EXCEPT !.between = @ \/ arg # first.arg]

NextObserved ==
    \/ \E arg \in Args : GetPlayerSummaryStats(arg) /\ Observed(arg)
    \/ /\ GetRanks
       /\ first' = IF first.op = "none" THEN first ELSE [first EXCEPT !.between = TRUE]

ObservedSpec == ObservedInit /\ [][NextObserved]_vars

---------------------------------------------------------------------------
(* The loader (scripts/load_data.py).  db is the six tables as a record,   *)
(* with ok: no exception has been raised so far.                           *)

\* Mutant of UpdateOrCreate: objects.create on a table that does not enforce
\* its key, so a row is added whether or not the id is there.
UpdateOrCreate_always_insert(rows, key, id, row) == rows \cup {row}

\* Model.objects.update_or_create(<key>=id, defaults=...): the row with that
\* key gets the defaults, or is created with them.
UpdateOrCreate(rows, key, id, row) == {r \in rows : r[key] # id} \cup {row}

RECURSIVE load_teams(_, _)
load_teams(db, teams_data) ==
    IF teams_data = <<>> THEN db
    ELSE LET team_data == Head(teams_data) IN
         load_teams([db EXCEPT !.teams =
                        UpdateOrCreate(@, "team_id", team_data.team_id,
                                       TeamRow(team_data.team_id, team_data.name))],
                    Tail(teams_data))

RECURSIVE load_games(_, _)
load_games(db, games_data) ==
    IF games_data = <<>> THEN db
    ELSE LET game_data == Head(games_data) IN
         load_games([db EXCEPT !.games =
                        UpdateOrCreate(@, "id", game_data.id,
                                       GameRow(game_data.id, game_data.date))],
                    Tail(games_data))

\* The foreign keys of models.py: the write raises IntegrityError and stores
\* nothing when the referenced team or game is not there.
HasTeam(db, team_id) == \E t \in db.teams : t.team_id = team_id
HasGame(db, game_id) == \E g \in db.games : g.id = game_id
Abort(db) == [db EXCEPT !.ok = FALSE]

RECURSIVE LoadShots(_, _, _)
LoadShots(db, player_id, shots_data_) ==
    IF shots_data_ = <<>> \/ ~db.ok THEN db
    ELSE LET shot_data == Head(shots_data_) IN
         IF ~HasGame(db, shot_data.game_id) THEN Abort(db)
         ELSE LoadShots(
                  [db EXCEPT !.shots =
                      UpdateOrCreate(@, "id", shot_data.id,
                          [id |-> shot_data.id, player_id |-> player_id,
                           game_id |-> shot_data.game_id, points |-> shot_data.points,
                           shooting_foul_drawn |-> shot_data.shooting_foul_drawn,
                           shot_loc_x |-> shot_data.shot_loc_x,
                           shot_loc_y |-> shot_data.shot_loc_y,
                           action_type |-> shot_data.action_type])],
                  player_id, Tail(shots_data_))

RECURSIVE LoadPasses(_, _, _)
LoadPasses(db, player_id, passes_data_) ==
    IF passes_data_ = <<>> \/ ~db.ok THEN db
    ELSE LET pass_data == Head(passes_data_) IN
         IF ~HasGame(db, pass_data.game_id) THEN Abort(db)
         ELSE LoadPasses(
                  [db EXCEPT !.passes =
                      UpdateOrCreate(@, "id", pass_data.id,
                          [id |-> pass_data.id, player_id |-> player_id,
                           game_id |-> pass_data.game_id,
                           completed_pass |-> pass_data.completed_pass,
                           potential_assist |-> pass_data.potential_assist,
                           turnover |-> pass_data.turnover,
                           ball_start_loc_x |-> pass_data.ball_start_loc_x,
                           ball_start_loc_y |-> pass_data.ball_start_loc_y,
                           ball_end_loc_x |-> pass_data.ball_end_loc_x,
                           ball_end_loc_y |-> pass_data.ball_end_loc_y,
                           action_type |-> pass_data.action_type])],
                  player_id, Tail(passes_data_))

RECURSIVE LoadTurnovers(_, _, _)
LoadTurnovers(db, player_id, turnovers_data_) ==
    IF turnovers_data_ = <<>> \/ ~db.ok THEN db
    ELSE LET tov_data == Head(turnovers_data_) IN
         IF ~HasGame(db, tov_data.game_id) THEN Abort(db)
         ELSE LoadTurnovers(
                  [db EXCEPT !.turnovers =
                      UpdateOrCreate(@, "id", tov_data.id,
                          [id |-> tov_data.id, player_id |-> player_id,
                           game_id |-> tov_data.game_id,
                           tov_loc_x |-> tov_data.tov_loc_x,
                           tov_loc_y |-> tov_data.tov_loc_y,
                           action_type |-> tov_data.action_type])],
                  player_id, Tail(turnovers_data_))

RECURSIVE load_players(_, _)
load_players(db, players_data) ==
    IF players_data = <<>> \/ ~db.ok THEN db
    ELSE LET player_data == Head(players_data)
             with_player ==
                 IF ~HasTeam(db, player_data.team_id) THEN Abort(db)
                 ELSE [db EXCEPT !.players =
                          UpdateOrCreate(@, "player_id", player_data.player_id,
                              PlayerRow(player_data.player_id, player_data.name,
                                        player_data.team_id))]
         IN  load_players(
                 LoadTurnovers(
                     LoadPasses(
                         LoadShots(with_player, player_data.player_id, player_data.shots),
                         player_data.player_id, player_data.passes),
                     player_data.player_id, player_data.turnovers),
                 Tail(players_data))

\* The six tables as a record, and back.
Db == [teams |-> teams, games |-> games, players |-> players, shots |-> shots,
       passes |-> passes, turnovers |-> turnovers, ok |-> TRUE]

Tables(db) == <<db.teams, db.games, db.players, db.shots, db.passes, db.turnovers>>

\* main(): load_teams, load_games, load_players, in this order; an exception
\* of load_players ends the run with what was written before it.
LoadTeams ==
    /\ pc = "idle"
    /\ runs < MaxRuns
    /\ teams' = load_teams(Db, fixture.teams).teams
    /\ pc' = "load_games"
    /\ UNCHANGED <<games, players, shots, passes, turnovers>>
    /\ UNCHANGED <<call, result, first, fixture, runs, afterFirst>>

LoadGames ==
    /\ pc = "load_games"
    /\ games' = load_games(Db, fixture.games).games
    /\ pc' = "load_players"
    /\ UNCHANGED <<teams, players, shots, passes, turnovers>>
    /\ UNCHANGED <<call, result, first, fixture, runs, afterFirst>>

LoadPlayers ==
    /\ pc = "load_players"
    /\ LET db == load_players(Db, fixture.players) IN
           /\ players' = db.players
           /\ shots' = db.shots
           /\ passes' = db.passes
           /\ turnovers' = db.turnovers
           /\ afterFirst' = IF runs = 0 THEN Tables(db) ELSE afterFirst
    /\ pc' = "idle"
    /\ runs' = runs + 1
    /\ UNCHANGED <<teams, games>>
    /\ UNCHANGED <<call, result, first, fixture>>

\* The fixture records tried.
TeamInputs == {[team_id |-> 1, name |-> "OKC"], [team_id |-> 1, name |-> "Thunder"]}

GameInputs == {[id |-> 1, date |-> "2024-01-01"], [id |-> 2, date |-> "2024-01-02"]}

PlayerInputs ==
    {[player_id |-> 1, name |-> "Ann", team_id |-> 1],
     [player_id |-> 1, name |-> "Bo", team_id |-> 1],
     [player_id |-> 2, name |-> "Bo", team_id |-> 2]}

ShotData(id, game_id, action_type, points) ==
    [id |-> id, game_id |-> game_id, points |-> points, shooting_foul_drawn |-> FALSE,
     shot_loc_x |-> 5 + points, shot_loc_y |-> 1, action_type |-> action_type]

ShotInputs ==
    {ShotData(1, 1, "pickAndRoll", 2), ShotData(1, 1, "isolation", 3),
     ShotData(2, 2, "postUp", 2)}

PassInputs ==
    {[id |-> 1, game_id |-> 1, completed_pass |-> TRUE, potential_assist |-> TRUE,
      turnover |-> FALSE, ball_start_loc_x |-> 0, ball_start_loc_y |-> 3,
      ball_end_loc_x |-> 4, ball_end_loc_y |-> 2, action_type |-> "pickAndRoll"]}

TurnoverInputs ==
    {[id |-> 1, game_id |-> 1, tov_loc_x |-> 2, tov_loc_y |-> 6, action_type |-> "postUp"]}

\* The sequences over S of length n, and of length at most n.
RECURSIVE SeqsOfLen(_, _)
SeqsOfLen(S, n) ==
    IF n = 0 THEN {<<>>}
    ELSE UNION {{<<x>> \o t : t \in SeqsOfLen(S, n - 1)} : x \in S}

SeqsUpTo(S, n) == UNION {SeqsOfLen(S, m) : m \in 0..n}

\* The player objects of players.json that hold exactly n records: the player
\* and n - 1 shots, passes and turnovers.
PlayerObjects(n) ==
    UNION {UNION {{[player_id |-> pl.player_id, name |-> pl.name, team_id |-> pl.team_id,
                    shots |-> sh, passes |-> pa, turnovers |-> tv] :
                       pl \in PlayerInputs,
                       tv \in SeqsOfLen(TurnoverInputs, n - 1 - Len(sh) - Len(pa))} :
                     pa \in SeqsUpTo(PassInputs, n - 1 - Len(sh))} :
             sh \in SeqsUpTo(ShotInputs, n - 1)}

\* The players.json lists that hold at most n records.
RECURSIVE PlayerLists(_)
PlayerLists(n) ==
    {<<>>} \cup
    UNION {UNION {{<<pd>> \o rest : rest \in PlayerLists(n - c)} : pd \in PlayerObjects(c)} :
              c \in 1..n}

\* The fixtures that hold at most n records in teams.json, games.json and
\* players.json together.
Fixtures(n) ==
    UNION {UNION {{[teams |-> t, games |-> g, players |-> ps] :
                      ps \in PlayerLists(n - Len(t) - Len(g))} :
                    g \in SeqsUpTo(GameInputs, n - Len(t))} :
             t \in SeqsUpTo(TeamInputs, n)}

\* The stores a load starts from: the empty one, and one that already holds
\* rows under the fixtures' ids, with other values, and a row of its own.
EmptyStore == <<{}, {}, {}, {}, {}, {}>>

LoadedStore ==
    <<{TeamRow(1, "Seattle")},
      {GameRow(1, "2023-12-31")},
      {PlayerRow(1, "Al", 1)},
      {ShotRow(1, 1, 1, "transition", 0), ShotRow(7, 1, 1, "postUp", 3)},
      {PassRow(1, 1, 1, "isolation", FALSE, TRUE)},
      {TurnoverRow(1, 1, 1, "isolation")}>>

LoadInit ==
    /\ \E tables \in {EmptyStore, LoadedStore} :
           /\ teams = tables[1]
           /\ games = tables[2]
           /\ players = tables[3]
           /\ shots = tables[4]
           /\ passes = tables[5]
           /\ turnovers = tables[6]
    /\ fixture \in Fixtures(MaxRecords)
    /\ call = [op |-> "none", arg |-> IntArg(0)]
    /\ result = NoResult
    /\ first = NoCall
    /\ pc = "idle"
    /\ runs = 0
    /\ afterFirst = NoSnapshot

LoadNext == LoadTeams \/ LoadGames \/ LoadPlayers

LoadSpec == LoadInit /\ [][LoadNext]_vars

---------------------------------------------------------------------------
(* What the claims speak of. *)

\* The value get_player_summary_stats(player_id) reports for a metric (every
\* order of the rows gives the same scalars).
Reported(player_id, metric) ==
    LET summary == CHOOSE r \in SummaryResults(IntArg(player_id), players, shots,
                                               passes, turnovers) : TRUE
    IN  summary[metric]

\* The player the last call was about, when its argument resolves to one.
Subject == PyInt(call.arg).val

\* The last call was get_ranks(p, get_player_summary_stats(p)).
RanksReturned == call.op = "get_ranks" /\ IsRanks(result)

\* The last call was get_player_summary_stats and returned a summary.
SummaryReturned == call.op = "get_player_summary_stats" /\ IsSummary(result)

StrictlyGreater(player_id, metric) ==
    {q \in players : Reported(q.player_id, metric) > Reported(player_id, metric)}

\* C1: get_ranks(p, get_player_summary_stats(p)) gives, for each of the ten
\* metrics, the rank 1 + the number of players whose reported value of the
\* metric is strictly greater than p's.
C1_RankCountsStrictlyGreater ==
    RanksReturned =>
        \A metric \in Metrics :
            RankOf(result, metric) = 1 + Cardinality(StrictlyGreater(Subject, metric))

\* The rank get_ranks gives player q for a metric, from q's own summary.
RankFor(player_id, metric) ==
    LET summary == CHOOSE r \in SummaryResults(IntArg(player_id), players, shots,
                                               passes, turnovers) : TRUE
    IN  RankOf(get_ranks(summary, players, shots, passes, turnovers), metric)

LeagueValues(metric) == {Reported(q.player_id, metric) : q \in players}

Highest(values) == CHOOSE v \in values : \A w \in values : w <= v

\* C2: players with equal values of a metric get equal ranks; the k players
\* tied at the league-highest value all get rank 1, and a player holding the
\* next distinct lower value gets rank k + 1.
C2_TiesShareRankAndSkip ==
    RanksReturned =>
        \A metric \in Metrics :
            LET mine == Reported(Subject, metric)
                top == Highest(LeagueValues(metric))
                k == Cardinality({q \in players : Reported(q.player_id, metric) = top})
                lower == LeagueValues(metric) \ {top}
            IN  /\ \A q \in players :
                       Reported(q.player_id, metric) = mine =>
                           RankFor(q.player_id, metric) = RankOf(result, metric)
                /\ mine = top => RankOf(result, metric) = 1
                /\ (lower # {} /\ mine = Highest(lower)) => RankOf(result, metric) = k + 1

\* The argument resolves to a Player of the store.
Resolves(arg) ==
    PyInt(arg).ok /\ \E p \in players : p.player_id = PyInt(arg).val

\* C3: for an argument that resolves to no Player (an id absent from the
\* store, a str that is no integer literal) get_player_summary_stats returns
\* the not-found error carrying the requested id: it raises nothing and
\* returns no summary.
C3_UnknownIdReturnsNotFound ==
    (call.op = "get_player_summary_stats" /\ ~Resolves(call.arg)) =>
        /\ ~IsRaised(result)
        /\ ~IsSummary(result)
        /\ result = NotFound(call.arg)

---------------------------------------------------------------------------
(* The summary against the subject's rows. *)

\* The subject's rows of a table, and those whose action_type is no category.
Mine(rows) == OfPlayer(rows, Subject)
Uncategorized(rows) == {r \in Mine(rows) : r.action_type \notin CategorySet}
Flagged(pass_rows) == {p \in pass_rows : p.turnover}
Assists(pass_rows) == {p \in pass_rows : p.potential_assist}

\* The sum of a scalar over the four category breakdowns of the summary.
CategorySum(summary, field) ==
    SumSeq([i \in DOMAIN Categories |-> summary[Categories[i]][field]])

\* The action count the summary holds for a category.
CountOf(summary, category) ==
    CASE category = "pickAndRoll" -> summary.pickAndRollCount
      [] category = "isolation" -> summary.isolationCount
      [] category = "postUp" -> summary.postUpCount
      [] category = "offBallScreen" -> summary.offBallScreenCount

\* C4 as stated: each of the five overall totals equals the sum of the same
\* total over the four category breakdowns, for any events of the player.
C4_TotalsEqualCategorySums ==
    SummaryReturned =>
        \A field \in {"totalShotAttempts", "totalPoints", "totalPasses",
                      "totalPotentialAssists", "totalPassingTurnovers"} :
            result[field] = CategorySum(result, field)

\* C4 as amended: each of the five overall totals equals the sum of the same
\* total over the four category breakdowns plus what the player's events
\* whose action_type is none of the four contribute to it.
C4_TotalsEqualCategorySumsPlusUncategorized ==
    SummaryReturned =>
        /\ result.totalShotAttempts =
               CategorySum(result, "totalShotAttempts")
               + Cardinality(Uncategorized(shots))
        /\ result.totalPoints =
               CategorySum(result, "totalPoints") + SumPointsOf(Uncategorized(shots))
        /\ result.totalPasses =
               CategorySum(result, "totalPasses") + Cardinality(Uncategorized(passes))
        /\ result.totalPotentialAssists =
               CategorySum(result, "totalPotentialAssists")
               + Cardinality(Assists(Uncategorized(passes)))
        /\ result.totalPassingTurnovers =
               CategorySum(result, "totalPassingTurnovers")
               + Cardinality(Flagged(Uncategorized(passes)))

\* A summary of a player with a scoring shot in a category and a scoring
\* shot of an action type that is no category.
C4_Witness ==
    /\ SummaryReturned
    /\ result.totalPoints = 4
    /\ CategorySum(result, "totalPoints") = 2
    /\ Cardinality(Uncategorized(shots)) = 1

\* C5: overall and in each category breakdown, totalTurnovers is
\* totalPassingTurnovers plus the number of standalone Turnover rows in that
\* scope, and totalPassingTurnovers is the number of passes there flagged
\* turnover.
C5_TurnoversArePassingPlusStandalone ==
    SummaryReturned =>
        /\ result.totalPassingTurnovers = Cardinality(Flagged(Mine(passes)))
        /\ result.totalTurnovers =
               result.totalPassingTurnovers + Cardinality(Mine(turnovers))
        /\ \A c \in CategorySet :
               /\ result[c].totalPassingTurnovers =
                      Cardinality({p \in Flagged(Mine(passes)) : p.action_type = c})
               /\ result[c].totalTurnovers =
                      result[c].totalPassingTurnovers
                      + Cardinality({t \in Mine(turnovers) : t.action_type = c})

\* A summary with a standalone turnover and a pass flagged turnover in postUp.
C5_Witness ==
    /\ SummaryReturned
    /\ result.postUp.totalPassingTurnovers = 1
    /\ result.postUp.totalTurnovers = 2
    /\ result.totalTurnovers = 2

\* C6: each action count is the number of the player's shots, passes and
\* standalone turnovers of that category, which is the breakdown's
\* totalShotAttempts + totalPasses + (totalTurnovers - totalPassingTurnovers):
\* a pass flagged turnover counts once.
C6_ActionCountIsEventVolume ==
    SummaryReturned =>
        \A c \in CategorySet :
            /\ CountOf(result, c) =
                   Cardinality({r \in Mine(shots) : r.action_type = c})
                   + Cardinality({r \in Mine(passes) : r.action_type = c})
                   + Cardinality({r \in Mine(turnovers) : r.action_type = c})
            /\ CountOf(result, c) =
                   result[c].totalShotAttempts + result[c].totalPasses
                   + (result[c].totalTurnovers - result[c].totalPassingTurnovers)

\* A summary with a shot and a pass flagged turnover in isolation: count 2.
C6_Witness ==
    /\ SummaryReturned
    /\ result.isolation.totalShotAttempts = 1
    /\ result.isolation.totalPassingTurnovers = 1
    /\ result.isolationCount = 2

\* The table without the subject's rows whose action_type is no category.
Categorized(rows) == rows \ Uncategorized(rows)

\* C7: the player's events whose action_type is none of the four categories
\* are accepted and counted in the overall totals, and add nothing to any
\* category breakdown (scalars, detail lists) nor to any action count: these
\* are what they are on the store without those events.
C7_UncategorizedCountOnlyOverall ==
    (call.op = "get_player_summary_stats" /\ Resolves(call.arg)) =>
        /\ IsSummary(result)
        /\ \E without \in SummaryResults(call.arg, players, Categorized(shots),
                                         Categorized(passes), Categorized(turnovers)) :
               /\ \A c \in CategorySet :
                      /\ result[c] = without[c]
                      /\ CountOf(result, c) = CountOf(without, c)
               /\ result.totalShotAttempts =
                      without.totalShotAttempts + Cardinality(Uncategorized(shots))
               /\ result.totalPoints =
                      without.totalPoints + SumPointsOf(Uncategorized(shots))
               /\ result.totalPasses =
                      without.totalPasses + Cardinality(Uncategorized(passes))
               /\ result.totalPotentialAssists =
                      without.totalPotentialAssists
                      + Cardinality(Assists(Uncategorized(passes)))
               /\ result.totalPassingTurnovers =
                      without.totalPassingTurnovers
                      + Cardinality(Flagged(Uncategorized(passes)))
               /\ result.totalTurnovers =
                      without.totalTurnovers
                      + Cardinality(Uncategorized(turnovers))
                      + Cardinality(Flagged(Uncategorized(passes)))

\* A summary of a player with a pass flagged turnover of an action type that
\* is no category, and one event in a category.
C7_Witness ==
    /\ SummaryReturned
    /\ Cardinality(Flagged(Uncategorized(passes))) = 1
    /\ result.totalPassingTurnovers = 1
    /\ result.pickAndRollCount + result.isolationCount
       + result.postUpCount + result.offBallScreenCount = 1

---------------------------------------------------------------------------
(* Repeated calls. *)

\* The last call repeats the first get_player_summary_stats call.
Repeats == call.op = "get_player_summary_stats" /\ first.op # "none" /\ first.arg = call.arg

\* C8 as stated: a repeated get_player_summary_stats call on the unchanged
\* store returns exactly what the first returned, detail lists included,
\* whatever was called in between.
C8_RepeatedCallIdentical == Repeats => result = first.result

\* A breakdown with its detail lists taken as bags, their order dropped.
Unordered(breakdown) ==
    [breakdown EXCEPT !.shots = BagOf(@), !.passes = BagOf(@), !.turnovers = BagOf(@)]

\* A result with the detail lists of its four breakdowns taken as bags.
UpToOrder(r) ==
    IF IsSummary(r)
    THEN [r EXCEPT !.pickAndRoll = Unordered(@), !.isolation = Unordered(@),
                   !.postUp = Unordered(@), !.offBallScreen = Unordered(@)]
    ELSE r

\* C8 as amended: a repeated get_player_summary_stats call on the unchanged
\* store returns the same error, or a summary equal to the first in name,
\* playerID, every scalar, every action count and every breakdown's scalars,
\* with the same entries in every detail list, possibly in another order.
C8_RepeatedCallSameUpToOrder == Repeats => UpToOrder(result) = UpToOrder(first.result)

\* A repeated call, after another call, whose summary lists two shots in the
\* other order.
C8_Witness ==
    /\ Repeats
    /\ first.between
    /\ IsSummary(result)
    /\ result # first.result
    /\ Len(result.pickAndRoll.shots) = 2

\* C9: a call of get_player_summary_stats or get_ranks, whatever its argument
\* and outcome, leaves every row of the six tables as it was, and what it
\* returns is fixed by its arguments and the tables, not by earlier calls.
C9_CallsOnlyRead ==
    [][/\ store' = store
       /\ call'.op = "get_player_summary_stats" =>
              result' \in SummaryResults(call'.arg, players, shots, passes, turnovers)
       /\ call'.op = "get_ranks" =>
              \E summary \in SummaryResults(call'.arg, players, shots, passes, turnovers) :
                  result' = get_ranks(summary, players, shots, passes, turnovers)]_vars

\* The not-found error returned for an unknown id, after other calls, on a
\* store that holds players and events.
C9_Witness ==
    /\ call.op = "get_player_summary_stats"
    /\ IsError(result)
    /\ first.between
    /\ players # {}
    /\ shots # {}

---------------------------------------------------------------------------
(* Loading twice. *)

\* No two rows of the table have the same value of the key.
UniqueKey(rows, key) == \A r1, r2 \in rows : r1[key] = r2[key] => r1 = r2

\* C10: after any number k >= 1 of runs of the load over the same fixtures the
\* store is exactly as the first run left it, and every table holds at most
\* one row per identifier, also when the fixtures repeat an identifier.
C10_LoadIsIdempotent ==
    (pc = "idle" /\ runs >= 1) =>
        /\ store = afterFirst
        /\ UniqueKey(teams, "team_id")
        /\ UniqueKey(games, "id")
        /\ UniqueKey(players, "player_id")
        /\ UniqueKey(shots, "id")
        /\ UniqueKey(passes, "id")
        /\ UniqueKey(turnovers, "id")

\* Two completed runs over fixtures that give shot 1 twice, with different
\* values, on a store that held shot 1 before: the last value is stored.
C10_Witness ==
    /\ pc = "idle"
    /\ runs = 2
    /\ Len(fixture.players) = 1
    /\ Len(fixture.players[1].shots) = 2
    /\ fixture.players[1].shots[1].id = 1
    /\ fixture.players[1].shots[2].id = 1
    /\ fixture.players[1].shots[1].points # fixture.players[1].shots[2].points
    /\ \E r \in shots : r.id = 1 /\ r.points = fixture.players[1].shots[2].points
    /\ \E r \in shots : r.id = 7

\* C11: for each of the ten metrics and every player q of the league, the value
\* get_ranks computes for q and compares against the target's value is the
\* value get_player_summary_stats(q) reports for that metric; for
\* totalTurnovers it is q's standalone turnovers plus q's passes flagged
\* turnover.
C11_ComparedIsReported ==
    RanksReturned =>
        \A metric \in Metrics : \A q \in players :
            /\ Compared(metric, q.player_id, shots, passes, turnovers)
                   = Reported(q.player_id, metric)
            /\ metric = "totalTurnovers" =>
                   Compared(metric, q.player_id, shots, passes, turnovers)
                       = Cardinality(OfPlayer(turnovers, q.player_id))
                         + Cardinality({p \in OfPlayer(passes, q.player_id) : p.turnover})

\* C12: in a store with N >= 1 players, every rank returned by
\* get_ranks(p, get_player_summary_stats(p)) lies between 1 and N, and a player
\* holding the league-maximum value of a metric gets rank 1 for it.
C12_RankWithinLeague ==
    (RanksReturned /\ Cardinality(players) >= 1) =>
        \A metric \in Metrics :
            /\ RankOf(result, metric) \in 1..Cardinality(players)
            /\ Reported(Subject, metric) = Highest(LeagueValues(metric))
                   => RankOf(result, metric) = 1

---------------------------------------------------------------------------
(* Detail lists against the scalars of the same breakdown. *)

\* The sum of points over a list of shot entries.
PointsOver(entries) == SumSeq([i \in DOMAIN entries |-> entries[i].points])

\* The number of entries of a list of pass entries with the flag set.
EntriesWith(entries, flag) == Cardinality({i \in DOMAIN entries : entries[i][flag]})

\* C13: in every category breakdown of a summary the detail lists agree with
\* the scalars: shots has totalShotAttempts entries whose points sum to
\* totalPoints; passes has totalPasses entries, totalPotentialAssists of them
\* with isPotentialAssist and totalPassingTurnovers with isTurnover; turnovers
\* has totalTurnovers - totalPassingTurnovers entries.
C13_DetailListsAgreeWithScalars ==
    SummaryReturned =>
        \A c \in CategorySet :
            /\ Len(result[c].shots) = result[c].totalShotAttempts
            /\ PointsOver(result[c].shots) = result[c].totalPoints
            /\ Len(result[c].passes) = result[c].totalPasses
            /\ EntriesWith(result[c].passes, "isPotentialAssist")
                   = result[c].totalPotentialAssists
            /\ EntriesWith(result[c].passes, "isTurnover")
                   = result[c].totalPassingTurnovers
            /\ Len(result[c].turnovers)
                   = result[c].totalTurnovers - result[c].totalPassingTurnovers

\* A summary with a breakdown that lists a scoring shot and a pass flagged
\* turnover, so that totalTurnovers is 1 while the turnovers list is empty.
C13_Witness ==
    /\ SummaryReturned
    /\ \E c \in CategorySet :
           /\ Len(result[c].shots) = 1
           /\ result[c].shots[1].points = 2
           /\ Len(result[c].passes) = 1
           /\ result[c].passes[1].isTurnover
           /\ result[c].totalTurnovers = 1
           /\ result[c].turnovers = <<>>

=============================================================================
